---------------------------- MODULE Spec2Model ----------------------------
(***************************************************************************)
(* A model of breeze, a client library for the Pushover API: the Message  *)
(* builder (message.go) and the PushContext with its construction, its    *)
(* validation of a message and its dispatch to the transport              *)
(* (pushcontext.go).                                                       *)
(*                                                                         *)
(* Strings are TLA+ strings, Len is Go's len.  url.Values is a function   *)
(* from the keys present to the sequence of values added under each key.  *)
(* The remote service is the environment: every reply it can give is an   *)
(* input of the action that receives it.                                   *)
(***************************************************************************)
EXTENDS Integers, Sequences, FiniteSets, TLC

(***************************************************************************)
(* Bounds of the model.                                                    *)
(***************************************************************************)
\* Setter calls on one message before it is pushed or replaced.
MaxSetterCalls == 3

(***************************************************************************)
(* Program constants.                                                      *)
(***************************************************************************)
\* The lowest priority taken to be Low.
LowestIsLow == 0 - 1
Lowest == -2
Low == -1
Normal == 0
High == 1
Emergency == 2

\* The minimum with the comparison off by one (<= for <).
minRetryTimeExclusive == 30 + 1
minRetryTime == 30
maxExpireTime == 86400

\* The limit with the comparison off by one (>= for >).
MaxTitleLenOffByOne == 250 - 1
MaxTitleLen == 250

\* The limit with the comparison off by one (>= for >).
MaxMessageLenOffByOne == 1024 - 1
MaxMessageLen == 1024

\* The limit with the comparison off by one (>= for >).
MaxSuppURLTitleLenOffByOne == 100 - 1
MaxSuppURLTitleLen == 100

\* The limit of the URL title taken for the limit of the URL.
MaxSuppURLLenOfTitle == MaxSuppURLTitleLen
MaxSuppURLLen == 512

ErrMessageBlank == -1
ErrMessageTooLong == -2
ErrTitleTooLong == -3
ErrSuppURLTitleTooLong == -4
ErrSuppURLTooLong == -5
ErrInvalidPriority == -6
ErrMissingParameter == -7
ErrRetryTimeTooShort == -8
ErrExpireTimeTooLong == -9
ErrNoDevice == -10

validateURL == "https://api.pushover.net/1/users/validate.json"
pushURL == "https://api.pushover.net/1/messages.json"
soundURL == "https://api.pushover.net/1/sounds.json"

(***************************************************************************)
(* Strings and conversions.                                                *)
(***************************************************************************)
\* strings.Repeat, by halving so that 1025 repetitions stay shallow.
RECURSIVE Repeat(_, _)
Repeat(s, n) ==
    IF n = 0 THEN ""
    ELSE IF n = 1 THEN s
    ELSE LET h == Repeat(s, n \div 2)
         IN  IF n % 2 = 1 THEN h \o h \o s ELSE h \o h

Digits == <<"0", "1", "2", "3", "4", "5", "6", "7", "8", "9">>

RECURSIVE FormatNat(_)
FormatNat(n) ==
    IF n < 10 THEN Digits[n + 1]
    ELSE FormatNat(n \div 10) \o Digits[(n % 10) + 1]

\* strconv.Itoa and strconv.FormatInt(_, 10): the decimal text of an integer.
Itoa(i) == IF i < 0 THEN "-" \o FormatNat(-i) ELSE FormatNat(i)

(***************************************************************************)
(* Data.                                                                   *)
(***************************************************************************)
NoSounds == [s \in {} |-> ""]

\* The zero value of Response: what a failed or empty decode leaves behind.
ZeroResponse ==
    [Status |-> 0, Request |-> "", Receipt |-> "", Devices |-> <<>>,
     Errors |-> <<>>, Sounds |-> NoSounds]

NilError == [type |-> "nil", What |-> 0, RequestResponse |-> ZeroResponse]

ValueError(what) ==
    [type |-> "ValueError", What |-> what, RequestResponse |-> ZeroResponse]

PushError(response) ==
    [type |-> "PushError", What |-> 0, RequestResponse |-> response]

\* The error of http.Get: a failure of the transport itself.
TransportError ==
    [type |-> "TransportError", What |-> 0, RequestResponse |-> ZeroResponse]

\* The zero value of Message.
ZeroMessage ==
    [message |-> "", title |-> "", url |-> "", urlTitle |-> "",
     priority |-> 0, retry |-> 0, expire |-> 0, timestamp |-> 0,
     sound |-> "", device |-> ""]

\* The zero value of PushContext.
ZeroPushContext ==
    [appToken |-> "", userKey |-> "", SupportedSounds |-> NoSounds,
     SupportedDevices |-> <<>>]

NoValues == [k \in {} |-> <<>>]

\* url.Values.Add: append the value to the list kept under the key.
Add(values, key, value) ==
    IF key \in DOMAIN values
    THEN [values EXCEPT ![key] = Append(@, value)]
    ELSE values @@ (key :> <<value>>)

(***************************************************************************)
(* Inputs: what the caller passes and what the service replies.            *)
(***************************************************************************)
AppTokens == {"app-token"}
UserKeys == {"user-key"}

Bodies == {"", "a", Repeat("a", 1024), Repeat("a", 1025)}
Titles == {"", Repeat("t", 250), Repeat("t", 251)}
URLs == {"", Repeat("u", 512), Repeat("u", 513)}
URLTitles == {"", Repeat("l", 100), Repeat("l", 101)}
Priorities == -3 .. 3
Retries == {0, 29, 30}
Expires == {0, 86400, 86401}
Timestamps == {0, 1700000000}
SoundNames == {"", "bike"}
DeviceNames == {"", "phone", "ghost"}

Responses ==
    { ZeroResponse,
      [ZeroResponse EXCEPT !.Status = 1, !.Request = "req-1",
                           !.Devices = <<"tablet", "phone">>],
      [ZeroResponse EXCEPT !.Status = 1, !.Request = "req-2",
                           !.Receipt = "rcpt-2",
                           !.Sounds = [s \in {"bike"} |-> "Bike"]],
      [ZeroResponse EXCEPT !.Status = 0, !.Request = "req-3",
                           !.Errors = <<"application token is invalid">>,
                           !.Devices = <<"phone">>],
      [ZeroResponse EXCEPT !.Status = 2, !.Request = "req-4",
                           !.Receipt = "rcpt-4", !.Errors = <<"odd">>] }

\* What Decode can leave in the Response when it fails: nothing (the body is
\* no JSON), or the fields it could assign before and after the one of the
\* wrong type, the status among them.
PartialResponses ==
    { ZeroResponse,
      [ZeroResponse EXCEPT !.Status = 1, !.Request = "req-5"] }

\* What a round trip brings back.  The connection fails and there is no
\* response (body "nil"); or the redirect policy fails, and the error comes
\* with the last response, its body already closed; or a body arrives and
\* Decode assigns it to a Response, with or without an error of its own.
Outcomes ==
    {[failed |-> TRUE, body |-> "nil", decodeError |-> FALSE,
      data |-> ZeroResponse],
     [failed |-> TRUE, body |-> "closed", decodeError |-> TRUE,
      data |-> ZeroResponse]}
        \cup {[failed |-> FALSE, body |-> "open", decodeError |-> FALSE,
                data |-> r] : r \in Responses}
        \cup {[failed |-> FALSE, body |-> "open", decodeError |-> TRUE,
                data |-> r] : r \in PartialResponses}

(***************************************************************************)
(* State.                                                                  *)
(***************************************************************************)
VARIABLES
    pc,           \* where the caller is
    pushContext,  \* the PushContext object
    message,      \* the Message object
    setterCalls,  \* setter calls made on the message since NewMessage
    net,          \* transport calls made by the operation in progress or last run
    replies,      \* what the transport brought back for each of them
    ret,          \* what the last operation returned
    peer          \* a second goroutine pushing its own message on the context

vars == <<pc, pushContext, message, setterCalls, net, replies, ret, peer>>

\* op is the operation that returned and arg the argument a setter was called
\* with.
NoReturn ==
    [op |-> "none", arg |-> "", panicked |-> FALSE, value |-> "none",
     response |-> ZeroResponse, err |-> NilError]

\* The second goroutine before its first Push of message m.
IdlePeer(m) == [pc |-> "idle", message |-> m, net |-> <<>>, ret |-> NoReturn]

Request(method, target, values) ==
    [method |-> method, url |-> target, values |-> values]

(***************************************************************************)
(* pushcontext.go                                                          *)
(***************************************************************************)
\* push taking only status 0 for a failure.
pushZeroIsFailure(outcome) ==
    IF outcome.body = "nil"
    THEN [panicked |-> TRUE, response |-> ZeroResponse, err |-> NilError]
    ELSE IF outcome.data.Status = 0
    THEN [panicked |-> FALSE, response |-> ZeroResponse,
          err |-> PushError(outcome.data)]
    ELSE [panicked |-> FALSE, response |-> outcome.data, err |-> NilError]

\* PushContext.push after http.PostForm has come back with `outcome`.  The
\* error of PostForm is printed and dropped: with no response,
\* response.Body panics; otherwise whatever the body decodes to is judged by
\* its status, and the error of Decode is dropped as well.
push(outcome) ==
    IF outcome.body = "nil"
    THEN [panicked |-> TRUE, response |-> ZeroResponse, err |-> NilError]
    ELSE IF outcome.data.Status # 1
    THEN [panicked |-> FALSE, response |-> ZeroResponse,
          err |-> PushError(outcome.data)]
    ELSE [panicked |-> FALSE, response |-> outcome.data, err |-> NilError]

\* PushContext.get after http.Get has come back with `outcome`.
get(outcome) ==
    IF outcome.failed
    THEN [response |-> ZeroResponse, err |-> TransportError]
    ELSE [response |-> outcome.data, err |-> NilError]

\* PushContext.availableSounds, given the outcome of its GET.
availableSounds(outcome) ==
    LET got == get(outcome)
    IN  IF got.err # NilError
        THEN [sounds |-> NoSounds, err |-> got.err]
        ELSE [sounds |-> got.response.Sounds, err |-> NilError]

\* PushContext.addValues
ContextAddValues(ctx, values) ==
    Add(Add(values, "token", ctx.appToken), "user", ctx.userKey)

\* IsValidDevice returning from inside the loop after the first device.
IsValidDeviceFirstOnly(ctx, device) ==
    /\ Len(ctx.SupportedDevices) > 0
    /\ ctx.SupportedDevices[1] = device

\* PushContext.IsValidDevice
IsValidDevice(ctx, device) ==
    \E i \in 1 .. Len(ctx.SupportedDevices) : ctx.SupportedDevices[i] = device

\* PushContext.IsValidSound
IsValidSound(ctx, sound) == sound \in DOMAIN ctx.SupportedSounds

Init ==
    /\ pc = "start"
    /\ pushContext = ZeroPushContext
    /\ message = ZeroMessage
    /\ setterCalls = 0
    /\ net = <<>>
    /\ replies = <<>>
    /\ ret = NoReturn
    /\ peer = IdlePeer(ZeroMessage)

\* NewPushContext returning the context it allocated along with the error.
NewPushContextReturnsContext(err) ==
    [NoReturn EXCEPT !.op = "NewPushContext", !.value = "pushContext", !.err = err]

\* NewPushContext from the return of validatePushContext to its own return.
NewPushContextReturn(err) ==
    IF err # NilError
    THEN [NoReturn EXCEPT !.op = "NewPushContext", !.value = "nil", !.err = err]
    ELSE [NoReturn EXCEPT !.op = "NewPushContext", !.value = "pushContext"]

\* NewPushContext up to the POST of validatePushContext.
NewPushContext ==
    /\ pc = "start"
    /\ \E appToken \in AppTokens, userKey \in UserKeys :
         /\ pushContext' = [ZeroPushContext EXCEPT !.appToken = appToken,
                                                   !.userKey = userKey]
         /\ net' = <<Request("POST", validateURL,
                             ContextAddValues(pushContext', NoValues))>>
    /\ pc' = "validating"
    /\ UNCHANGED <<message, setterCalls, replies, ret, peer>>

\* validatePushContext from the return of push to the GET of availableSounds,
\* or to the return of NewPushContext when push fails.
ValidateReply ==
    /\ pc = "validating"
    /\ \E outcome \in Outcomes :
         LET r == push(outcome)
         IN  /\ replies' = Append(replies, outcome)
             /\ IF r.panicked
                THEN /\ pc' = "crashed"
                     /\ ret' = [NoReturn EXCEPT !.op = "NewPushContext",
                                                !.panicked = TRUE]
                     /\ UNCHANGED <<pushContext, net>>
                ELSE IF r.err # NilError
                THEN /\ pc' = "nocontext"
                     /\ ret' = NewPushContextReturn(r.err)
                     /\ UNCHANGED <<pushContext, net>>
                ELSE /\ pushContext' =
                           [pushContext EXCEPT
                               !.SupportedDevices = r.response.Devices]
                     /\ net' = Append(net,
                                  Request("GET", soundURL,
                                          ContextAddValues(pushContext, NoValues)))
                     /\ pc' = "sounds"
                     /\ UNCHANGED ret
    /\ UNCHANGED <<message, setterCalls, peer>>

\* validatePushContext from the return of availableSounds to the return of
\* NewPushContext.
SoundsReply ==
    /\ pc = "sounds"
    /\ \E outcome \in Outcomes :
         LET s == availableSounds(outcome)
         IN  /\ replies' = Append(replies, outcome)
             /\ ret' = NewPushContextReturn(s.err)
             /\ IF s.err # NilError
                THEN /\ pc' = "nocontext"
                     /\ UNCHANGED pushContext
                ELSE /\ pc' = "ready"
                     /\ pushContext' =
                           [pushContext EXCEPT !.SupportedSounds = s.sounds]
    /\ UNCHANGED <<message, setterCalls, net, peer>>

(***************************************************************************)
(* message.go                                                              *)
(***************************************************************************)
\* addValues adding retry and expire whenever they are set.
MessageAddValuesRetryWhenSet(m, values) ==
    LET v1 == IF m.message # "" THEN Add(values, "message", m.message) ELSE values
        v2 == IF m.title # "" THEN Add(v1, "title", m.title) ELSE v1
        v3 == IF m.url # "" THEN Add(v2, "url", m.url) ELSE v2
        v4 == IF m.urlTitle # "" THEN Add(v3, "url_title", m.urlTitle) ELSE v3
        v5 == Add(v4, "priority", Itoa(m.priority))
        v6 == IF m.retry # 0 THEN Add(v5, "retry", Itoa(m.retry)) ELSE v5
        v7 == IF m.expire # 0 THEN Add(v6, "expire", Itoa(m.expire)) ELSE v6
        v8 == IF m.timestamp # 0 THEN Add(v7, "timestamp", Itoa(m.timestamp)) ELSE v7
        v9 == IF m.sound # "" THEN Add(v8, "sound", m.sound) ELSE v8
    IN  IF m.device # "" THEN Add(v9, "device", m.device) ELSE v9

\* Message.addValues
MessageAddValues(m, values) ==
    LET v1 == IF m.message # "" THEN Add(values, "message", m.message) ELSE values
        v2 == IF m.title # "" THEN Add(v1, "title", m.title) ELSE v1
        v3 == IF m.url # "" THEN Add(v2, "url", m.url) ELSE v2
        v4 == IF m.urlTitle # "" THEN Add(v3, "url_title", m.urlTitle) ELSE v3
        v5 == Add(v4, "priority", Itoa(m.priority))
        v6 == IF m.priority = Emergency
              THEN Add(Add(v5, "retry", Itoa(m.retry)), "expire", Itoa(m.expire))
              ELSE v5
        v7 == IF m.timestamp # 0 THEN Add(v6, "timestamp", Itoa(m.timestamp)) ELSE v6
        v8 == IF m.sound # "" THEN Add(v7, "sound", m.sound) ELSE v7
    IN  IF m.device # "" THEN Add(v8, "device", m.device) ELSE v8

\* Message.validateMessage: the checks of the validation sequence, first
\* failure wins.  The sound is not checked.
validateMessage(m, ctx) ==
    IF m.message = "" THEN ValueError(ErrMessageBlank)
    ELSE IF Len(m.message) > MaxMessageLen THEN ValueError(ErrMessageTooLong)
    ELSE IF Len(m.title) > MaxTitleLen THEN ValueError(ErrTitleTooLong)
    ELSE IF Len(m.url) > MaxSuppURLLen THEN ValueError(ErrSuppURLTooLong)
    ELSE IF Len(m.urlTitle) > MaxSuppURLTitleLen
    THEN ValueError(ErrSuppURLTitleTooLong)
    ELSE IF m.urlTitle # "" /\ m.url = "" THEN ValueError(ErrMissingParameter)
    ELSE IF m.priority < Lowest \/ m.priority > Emergency
    THEN ValueError(ErrInvalidPriority)
    ELSE IF m.priority = Emergency /\ (m.retry = 0 \/ m.expire = 0)
    THEN ValueError(ErrMissingParameter)
    ELSE IF m.priority = Emergency /\ m.retry < minRetryTime
    THEN ValueError(ErrRetryTimeTooShort)
    ELSE IF m.priority = Emergency /\ m.expire > maxExpireTime
    THEN ValueError(ErrExpireTimeTooLong)
    ELSE IF m.device # "" /\ ~IsValidDevice(ctx, m.device)
    THEN ValueError(ErrNoDevice)
    ELSE NilError

\* A setter called with `arg` has run: it made no transport call and returned
\* the message.
Returned(op, arg) ==
    /\ ret' = [NoReturn EXCEPT !.op = op, !.arg = arg, !.value = "message"]
    /\ net' = <<>>
    /\ replies' = <<>>

NewMessage ==
    /\ pc \in {"ready", "built"}
    /\ \E msg \in Bodies :
         /\ message' = [ZeroMessage EXCEPT !.message = msg]
         /\ Returned("NewMessage", msg)
    /\ setterCalls' = 0
    /\ pc' = "built"
    /\ UNCHANGED <<pushContext, peer>>

\* What every setter shares: a message to call it on, and the bound.
Setter(op, arg) ==
    /\ pc = "built"
    /\ setterCalls < MaxSetterCalls
    /\ setterCalls' = setterCalls + 1
    /\ Returned(op, arg)
    /\ UNCHANGED <<pc, pushContext, peer>>

AddTitle ==
    \E title \in Titles :
        /\ message' = [message EXCEPT !.title = title]
        /\ Setter("AddTitle", title)

AddURL ==
    \E url \in URLs :
        /\ message' = [message EXCEPT !.url = url]
        /\ Setter("AddURL", url)

\* AddURLTitle assigning its argument to the URL.
AddURLTitleSetsURL ==
    \E title \in URLTitles :
        /\ message' = [message EXCEPT !.url = title]
        /\ Setter("AddURLTitle", title)

AddURLTitle ==
    \E title \in URLTitles :
        /\ message' = [message EXCEPT !.urlTitle = title]
        /\ Setter("AddURLTitle", title)

AddPriority ==
    \E priority \in Priorities :
        /\ message' = [message EXCEPT !.priority = priority]
        /\ Setter("AddPriority", priority)

AddRetry ==
    \E retry \in Retries :
        /\ message' = [message EXCEPT !.retry = retry]
        /\ Setter("AddRetry", retry)

AddExpire ==
    \E expire \in Expires :
        /\ message' = [message EXCEPT !.expire = expire]
        /\ Setter("AddExpire", expire)

AddTimestamp ==
    \E timestamp \in Timestamps :
        /\ message' = [message EXCEPT !.timestamp = timestamp]
        /\ Setter("AddTimestamp", timestamp)

AddSound ==
    \E sound \in SoundNames :
        /\ message' = [message EXCEPT !.sound = sound]
        /\ Setter("AddSound", sound)

AddDevice ==
    \E device \in DeviceNames :
        /\ message' = [message EXCEPT !.device = device]
        /\ Setter("AddDevice", device)

(***************************************************************************)
(* PushContext.Push                                                        *)
(***************************************************************************)
\* Push handing the message to the transport whatever validateMessage said.
PushUnchecked(ctx, m) ==
    [err |-> validateMessage(m, ctx),
     requests |-> <<Request("POST", pushURL,
                            MessageAddValues(m, ContextAddValues(ctx, NoValues)))>>]

\* Push up to its call of push: the error it returns at once, or the one
\* request it hands to the transport.
Push(ctx, m) ==
    LET err == validateMessage(m, ctx)
    IN  IF err # NilError
        THEN [err |-> err, requests |-> <<>>]
        ELSE [err |-> NilError,
              requests |-> <<Request("POST", pushURL,
                                     MessageAddValues(m,
                                         ContextAddValues(ctx, NoValues)))>>]

PushCall ==
    /\ pc = "built"
    /\ LET p == Push(pushContext, message)
       IN  /\ net' = p.requests
           /\ replies' = <<>>
           /\ IF p.err # NilError
              THEN /\ ret' = [NoReturn EXCEPT !.op = "Push", !.err = p.err]
                   /\ pc' = "built"
              ELSE /\ ret' = NoReturn
                   /\ pc' = "pushing"
    /\ UNCHANGED <<pushContext, message, setterCalls, peer>>

\* Push keeping the devices of the response in the context, as
\* validatePushContext does.
PushReplyStoresDevices ==
    /\ pc = "pushing"
    /\ \E outcome \in Outcomes :
         LET r == push(outcome)
         IN  /\ replies' = Append(replies, outcome)
             /\ IF r.panicked
                THEN /\ pc' = "crashed"
                     /\ ret' = [NoReturn EXCEPT !.op = "Push", !.panicked = TRUE]
                     /\ UNCHANGED pushContext
                ELSE /\ pc' = "built"
                     /\ ret' = [NoReturn EXCEPT !.op = "Push",
                                                !.response = r.response,
                                                !.err = r.err]
                     /\ pushContext' =
                           [pushContext EXCEPT
                               !.SupportedDevices = r.response.Devices]
    /\ UNCHANGED <<message, setterCalls, net, peer>>

\* Push from the return of http.PostForm to its own return.
PushReply ==
    /\ pc = "pushing"
    /\ \E outcome \in Outcomes :
         LET r == push(outcome)
         IN  /\ replies' = Append(replies, outcome)
             /\ IF r.panicked
                THEN /\ pc' = "crashed"
                     /\ ret' = [NoReturn EXCEPT !.op = "Push", !.panicked = TRUE]
                ELSE /\ pc' = "built"
                     /\ ret' = [NoReturn EXCEPT !.op = "Push",
                                                !.response = r.response,
                                                !.err = r.err]
    /\ UNCHANGED <<pushContext, message, setterCalls, net, peer>>

(***************************************************************************)
(* Push called from a second goroutine, on the same context, while the     *)
(* first caller is between or inside its own calls.  A panic ends the      *)
(* process, and with it the first caller.                                  *)
(***************************************************************************)
PeerPushCall ==
    /\ pc \in {"built", "pushing"}
    /\ peer.pc = "idle"
    /\ LET p == Push(pushContext, peer.message)
       IN  peer' =
             IF p.err # NilError
             THEN [peer EXCEPT !.net = p.requests,
                               !.ret = [NoReturn EXCEPT !.op = "Push",
                                                        !.err = p.err]]
             ELSE [peer EXCEPT !.net = p.requests, !.ret = NoReturn,
                               !.pc = "pushing"]
    /\ UNCHANGED <<pc, pushContext, message, setterCalls, net, replies, ret>>

PeerPushReply ==
    /\ pc \in {"built", "pushing"}
    /\ peer.pc = "pushing"
    /\ \E outcome \in Outcomes :
         LET r == push(outcome)
         IN  IF r.panicked
             THEN /\ pc' = "crashed"
                  /\ peer' = [peer EXCEPT
                                 !.pc = "crashed",
                                 !.ret = [NoReturn EXCEPT !.op = "Push",
                                                          !.panicked = TRUE]]
             ELSE /\ pc' = pc
                  /\ peer' = [peer EXCEPT
                                 !.pc = "idle",
                                 !.ret = [NoReturn EXCEPT
                                             !.op = "Push",
                                             !.response = r.response,
                                             !.err = r.err]]
    /\ UNCHANGED <<pushContext, message, setterCalls, net, replies, ret>>

\* The contexts NewPushContext can return.
ReadyContexts ==
    {[appToken |-> appToken, userKey |-> userKey,
      SupportedDevices |-> validated.Devices, SupportedSounds |-> sounds.Sounds] :
        appToken \in AppTokens, userKey \in UserKeys,
        validated \in {r \in Responses \cup PartialResponses : r.Status = 1},
        sounds \in Responses \cup PartialResponses}

\* The messages NewMessage(b).AddDevice(d) builds.
DeviceMessages ==
    {[ZeroMessage EXCEPT !.message = b, !.device = d] :
        b \in {"", "a"}, d \in DeviceNames}

\* Two goroutines, each holding a message it built, about to push on a
\* context that NewPushContext returned.
InitInterleaved ==
    /\ pc = "built"
    /\ pushContext \in ReadyContexts
    /\ message \in DeviceMessages
    /\ setterCalls = 1
    /\ net = <<>>
    /\ replies = <<>>
    /\ ret = [NoReturn EXCEPT !.op = "AddDevice", !.arg = message.device,
                              !.value = "message"]
    /\ peer \in {IdlePeer(m) : m \in DeviceMessages}

NextInterleaved ==
    \/ PushCall
    \/ PushReply
    \/ PeerPushCall
    \/ PeerPushReply

SpecInterleaved == InitInterleaved /\ [][NextInterleaved]_vars

Next ==
    \/ NewPushContext
    \/ ValidateReply
    \/ SoundsReply
    \/ NewMessage
    \/ AddTitle
    \/ AddURL
    \/ AddURLTitle
    \/ AddPriority
    \/ AddRetry
    \/ AddExpire
    \/ AddTimestamp
    \/ AddSound
    \/ AddDevice
    \/ PushCall
    \/ PushReply

Spec == Init /\ [][Next]_vars

(***************************************************************************)
(* Properties.  In a state where ret.op = "Push", Push has returned (or    *)
(* panicked) and message and pushContext are still the ones it was called  *)
(* with; where pc = "pushing", its POST is in flight.                      *)
(***************************************************************************)
PushReturned == ret.op = "Push"

SupportedDeviceSet ==
    {pushContext.SupportedDevices[i] : i \in 1 .. Len(pushContext.SupportedDevices)}

\* The checks of the validation sequence, each on its own, with the limits
\* as the specification states them.
Violates(n) ==
    CASE n = 1 -> message.message = ""
      [] n = 2 -> Len(message.message) > 1024
      [] n = 3 -> Len(message.title) > 250
      [] n = 4 -> Len(message.url) > 512
      [] n = 5 -> Len(message.urlTitle) > 100
      [] n = 6 -> message.urlTitle # "" /\ message.url = ""
      [] n = 7 -> message.priority \notin {-2, -1, 0, 1, 2}
      [] n = 8 -> message.priority = 2 /\ (message.retry = 0 \/ message.expire = 0)
      [] n = 9 -> message.priority = 2 /\ message.retry < 30
      [] n = 10 -> message.priority = 2 /\ message.expire > 86400
      [] n = 11 -> message.device # "" /\ message.device \notin SupportedDeviceSet

Violated == {n \in 1 .. 11 : Violates(n)}

PassesUpTo(n) == \A k \in 1 .. n : ~Violates(k)

Discriminant(n) ==
    CASE n = 1 -> ErrMessageBlank
      [] n = 2 -> ErrMessageTooLong
      [] n = 3 -> ErrTitleTooLong
      [] n = 4 -> ErrSuppURLTooLong
      [] n = 5 -> ErrSuppURLTitleTooLong
      [] n = 6 -> ErrMissingParameter
      [] n = 7 -> ErrInvalidPriority
      [] n = 8 -> ErrMissingParameter
      [] n = 9 -> ErrRetryTimeTooShort
      [] n = 10 -> ErrExpireTimeTooLong
      [] n = 11 -> ErrNoDevice

FailsWith(what) == ret.err = ValueError(what)

\* C1: Push calls the transport only for a message that passed validation.
\* When validation fails Push returns the validation error and no transport
\* call was made; when it passes, exactly one call is made, a POST to the
\* send-message endpoint, and it is never repeated.
C1_TransportOnlyAfterValidation ==
    LET verdict == validateMessage(message, pushContext)
        sent == PushReturned \/ pc = "pushing"
    IN  /\ pc = "pushing" => verdict = NilError
        /\ (PushReturned /\ verdict # NilError) =>
               /\ ret.err = verdict
               /\ ~ret.panicked
               /\ net = <<>>
               /\ replies = <<>>
        /\ (sent /\ verdict = NilError) =>
               /\ Len(net) = 1
               /\ net[1].method = "POST"
               /\ net[1].url = pushURL
               /\ Len(replies) <= 1
               /\ ret.err.type # "ValueError"

\* A valid message was pushed: one POST went out and its reply came back.
C1_Witness ==
    /\ PushReturned
    /\ validateMessage(message, pushContext) = NilError
    /\ Len(net) = 1
    /\ Len(replies) = 1
    /\ ret.err = NilError
    /\ ~ret.panicked

\* C2: the checks run in the order 1..11 and stop at the first violation:
\* Push returns the discriminant of the lowest-numbered check the message
\* violates, and no validation error when it violates none.
C2_FirstViolationWins ==
    PushReturned =>
        IF Violated = {}
        THEN ret.err.type # "ValueError"
        ELSE \E n \in Violated :
                /\ \A k \in Violated : n <= k
                /\ FailsWith(Discriminant(n))

\* A message violating three checks at once, the first of them the title.
C2_Witness ==
    /\ PushReturned
    /\ Cardinality(Violated) >= 3
    /\ 3 \in Violated
    /\ PassesUpTo(2)
    /\ FailsWith(ErrTitleTooLong)

\* C3: whatever the other fields, an empty body fails with MessageBlank, a
\* body longer than 1024 fails with MessageTooLong, and a body of 1 to 1024
\* characters passes both checks.
C3_BodyChecks ==
    PushReturned =>
        /\ message.message = "" => FailsWith(ErrMessageBlank)
        /\ Len(message.message) > 1024 => FailsWith(ErrMessageTooLong)
        /\ Len(message.message) \in 1 .. 1024 =>
               /\ ~FailsWith(ErrMessageBlank)
               /\ ~FailsWith(ErrMessageTooLong)

\* A body of exactly 1024 characters was pushed and accepted.
C3_Witness ==
    /\ PushReturned
    /\ Len(message.message) = 1024
    /\ ret.err.type # "ValueError"
    /\ Len(net) = 1

\* C4, as stated: a message with URL title set and URL empty fails with
\* MissingParameter, regardless of other fields.
C4_Original ==
    (PushReturned /\ message.urlTitle # "" /\ message.url = "") =>
        FailsWith(ErrMissingParameter)

\* C4, amended: a message with URL title set and URL empty that passes the
\* checks before it (1 to 5) fails with MissingParameter, regardless of the
\* fields the later checks read.
C4_MissingURL ==
    (PushReturned /\ PassesUpTo(5) /\ message.urlTitle # "" /\ message.url = "") =>
        FailsWith(ErrMissingParameter)

\* A URL title without URL on a message whose priority is invalid as well.
C4_Witness ==
    /\ PushReturned
    /\ PassesUpTo(5)
    /\ message.urlTitle # ""
    /\ message.url = ""
    /\ Violates(7)
    /\ FailsWith(ErrMissingParameter)

C5_PriorityChecked ==
    /\ Lowest = -2 /\ Low = -1 /\ Normal = 0 /\ High = 1 /\ Emergency = 2
    /\ (PushReturned /\ PassesUpTo(6)) =>
           (FailsWith(ErrInvalidPriority) <=>
                message.priority \notin {-2, -1, 0, 1, 2})

C5_PriorityKept ==
    IF ret'.op = "NewMessage" THEN message'.priority = Normal
    ELSE ret'.op # "AddPriority" => message'.priority = message.priority

\* C5: for a message that passes checks 1 to 6, Push fails with
\* InvalidPriority exactly when the priority is outside {-2,-1,0,1,2}; the
\* five named priorities are these five values; and a message has priority
\* Normal (0) from NewMessage until AddPriority is called on it.
C5_Priority == [](C5_PriorityChecked) /\ [][C5_PriorityKept]_vars

\* A message of priority Lowest was pushed and not rejected.
C5_Witness ==
    /\ PushReturned
    /\ PassesUpTo(6)
    /\ message.priority = -2
    /\ ret.err.type # "ValueError"

EmergencyErrors ==
    {ValueError(ErrMissingParameter), ValueError(ErrRetryTimeTooShort),
     ValueError(ErrExpireTimeTooLong)}

\* C6: for an Emergency message that passes checks 1 to 7: retry or expire
\* zero fails with MissingParameter; otherwise retry < 30 fails with
\* RetryTimeTooShort; otherwise expire > 86400 fails with ExpireTimeTooLong;
\* otherwise none of the three is returned.  For any other priority none of
\* the three is returned, whatever retry and expire hold.
C6_EmergencyParameters ==
    (PushReturned /\ PassesUpTo(7)) =>
        IF message.priority = 2
        THEN IF message.retry = 0 \/ message.expire = 0
             THEN FailsWith(ErrMissingParameter)
             ELSE IF message.retry < 30 THEN FailsWith(ErrRetryTimeTooShort)
             ELSE IF message.expire > 86400 THEN FailsWith(ErrExpireTimeTooLong)
             ELSE ret.err \notin EmergencyErrors
        ELSE ret.err \notin EmergencyErrors

\* An Emergency message with retry 30 and expire 86400 was pushed and not
\* rejected.
C6_Witness ==
    /\ PushReturned
    /\ PassesUpTo(7)
    /\ message.priority = 2
    /\ message.retry = 30
    /\ message.expire = 86400
    /\ ret.err.type # "ValueError"

\* C7: when the earlier checks pass, a title is rejected with TitleTooLong
\* exactly when it is longer than 250, a URL with SuppURLTooLong exactly when
\* longer than 512, and the title of a URL that is present with
\* SuppURLTitleTooLong exactly when longer than 100.
C7_LengthLimits ==
    PushReturned =>
        /\ PassesUpTo(2) =>
               (FailsWith(ErrTitleTooLong) <=> Len(message.title) > 250)
        /\ PassesUpTo(3) =>
               (FailsWith(ErrSuppURLTooLong) <=> Len(message.url) > 512)
        /\ (PassesUpTo(4) /\ message.url # "") =>
               (FailsWith(ErrSuppURLTitleTooLong) <=> Len(message.urlTitle) > 100)

\* A title of exactly 250 and a URL of exactly 512 were accepted, and the
\* URL's title of 101 was rejected.
C7_Witness ==
    /\ PushReturned
    /\ Len(message.title) = 250
    /\ Len(message.url) = 512
    /\ Len(message.urlTitle) = 101
    /\ FailsWith(ErrSuppURLTitleTooLong)

\* C8: for a message that passes checks 1 to 10, Push fails with NoDevice
\* exactly when a device is set that is not in the context's SupportedDevices,
\* and then without any transport call; a message without device is never
\* rejected with NoDevice.
C8_KnownDevice ==
    PushReturned =>
        /\ PassesUpTo(10) =>
               (FailsWith(ErrNoDevice) <=>
                    (message.device # "" /\ message.device \notin SupportedDeviceSet))
        /\ FailsWith(ErrNoDevice) => net = <<>>
        /\ message.device = "" => ~FailsWith(ErrNoDevice)

\* The second of two supported devices was named and the message went out.
C8_Witness ==
    /\ PushReturned
    /\ Len(pushContext.SupportedDevices) = 2
    /\ message.device = pushContext.SupportedDevices[2]
    /\ ret.err.type # "ValueError"
    /\ Len(net) = 1

\* C9: push judges the decoded response by its status alone.  A status other
\* than 1 yields a PushError carrying the response's request identifier and
\* error list, and the zero Response beside it; status 1 yields no error and
\* the decoded response, receipt included, unchanged.
C9_StatusDecides ==
    (ret.op \in {"Push", "NewPushContext"} /\ Len(replies) = 1
        /\ replies[1].body # "nil") =>
        LET data == replies[1].data
        IN  IF data.Status # 1
            THEN /\ ret.err.type = "PushError"
                 /\ ret.err.RequestResponse.Request = data.Request
                 /\ ret.err.RequestResponse.Errors = data.Errors
                 /\ ret.response = ZeroResponse
            ELSE /\ ret.op = "Push"
                 /\ ret.err = NilError
                 /\ ret.response = data

\* Push returned a response of status 1 with its receipt.
C9_Witness ==
    /\ PushReturned
    /\ Len(replies) = 1
    /\ replies[1].data.Status = 1
    /\ replies[1].data.Receipt # ""
    /\ ret.response.Receipt = replies[1].data.Receipt
    /\ ret.err = NilError

\* C10: whenever NewPushContext returns, it returns the context with a nil
\* error, SupportedDevices taken from the validate response and
\* SupportedSounds from the sounds response, or nil with an error; and the
\* sound catalogue is fetched only after a validate response of status 1.
C10_ContextOrError ==
    /\ (ret.op = "NewPushContext" /\ ret.value = "pushContext") =>
           /\ ret.err = NilError
           /\ Len(replies) = 2
           /\ replies[1].data.Status = 1
           /\ pushContext.SupportedDevices = replies[1].data.Devices
           /\ ~replies[2].failed
           /\ pushContext.SupportedSounds = replies[2].data.Sounds
    /\ (ret.op = "NewPushContext" /\ ret.value # "pushContext" /\ ~ret.panicked) =>
           /\ ret.value = "nil"
           /\ ret.err # NilError
    /\ (pc \in {"validating", "sounds", "nocontext"} /\ Len(net) > 1) =>
           /\ replies[1].body # "nil"
           /\ replies[1].data.Status = 1
    /\ (ret.op = "NewPushContext" /\ Len(replies) >= 1
            /\ replies[1].body # "nil" /\ replies[1].data.Status # 1) =>
           /\ Len(net) = 1
           /\ Len(replies) = 1
           /\ ret.value = "nil"

\* The devices were stored in the context, the GET for the sounds failed,
\* and nil was returned with the error.
C10_Witness ==
    /\ ret.op = "NewPushContext"
    /\ Len(replies) = 2
    /\ replies[2].failed
    /\ pushContext.SupportedDevices # <<>>
    /\ ret.value = "nil"
    /\ ret.err = TransportError

\* The transport itself failed on this round trip: no connection, or a body
\* that does not decode.
TransportFailure(outcome) == outcome.failed \/ outcome.decodeError

\* C11: a transport-level failure of the POST or GET (connection failure or
\* undecodable body) ends with Push or NewPushContext returning an error to
\* the caller: no panic, no success, no context, and no second attempt.
C11_FailuresSurfaced ==
    (ret.op \in {"Push", "NewPushContext"}
        /\ \E i \in 1 .. Len(replies) : TransportFailure(replies[i])) =>
        /\ ~ret.panicked
        /\ ret.err.type \in {"PushError", "TransportError"}
        /\ ret.value # "pushContext"
        /\ Len(net) = Len(replies)

SetterNames ==
    {"AddTitle", "AddURL", "AddURLTitle", "AddPriority", "AddRetry",
     "AddExpire", "AddTimestamp", "AddSound", "AddDevice"}

\* What one step does to the message, by the operation that returned in it.
C12_Step ==
    LET op == ret'.op
        arg == ret'.arg
    IN  /\ CASE op = "NewMessage" -> message' = [ZeroMessage EXCEPT !.message = arg]
            [] op = "AddTitle" -> message' = [message EXCEPT !.title = arg]
            [] op = "AddURL" -> message' = [message EXCEPT !.url = arg]
            [] op = "AddURLTitle" -> message' = [message EXCEPT !.urlTitle = arg]
            [] op = "AddPriority" -> message' = [message EXCEPT !.priority = arg]
            [] op = "AddRetry" -> message' = [message EXCEPT !.retry = arg]
            [] op = "AddExpire" -> message' = [message EXCEPT !.expire = arg]
            [] op = "AddTimestamp" -> message' = [message EXCEPT !.timestamp = arg]
            [] op = "AddSound" -> message' = [message EXCEPT !.sound = arg]
            [] op = "AddDevice" -> message' = [message EXCEPT !.device = arg]
            [] OTHER -> message' = message
        /\ op \in SetterNames \cup {"NewMessage"} =>
               /\ ret'.value = "message"
               /\ ret'.err = NilError
               /\ ~ret'.panicked
               /\ net' = <<>>

\* C12: NewMessage(b) yields the message with body b and every other field
\* zero; each setter stores its argument as it is in its own field, leaves
\* every other field alone, returns the message and never fails; and nothing
\* else writes the message.  So each field holds the argument of the last
\* setter call for it, or its zero value.
C12_Setters == [][C12_Step]_vars

\* Arguments no validation would accept were stored as they are: an empty
\* body, a title of 251 characters and priority 3.
C12_Witness ==
    /\ ret.op = "AddPriority"
    /\ ret.arg = 3
    /\ ret.value = "message"
    /\ message.priority = 3
    /\ Len(message.title) = 251
    /\ message.message = ""
    /\ message.url = ""

\* The decimal text of the numbers a valid message can carry.
Decimal(n) ==
    CASE n = -2 -> "-2"
      [] n = -1 -> "-1"
      [] n = 0 -> "0"
      [] n = 1 -> "1"
      [] n = 2 -> "2"
      [] n = 30 -> "30"
      [] n = 86400 -> "86400"
      [] n = 1700000000 -> "1700000000"

\* The keys the parameters of the message must hold, and no others.
C14_Keys ==
    {"token", "user", "priority"}
        \cup (IF message.message # "" THEN {"message"} ELSE {})
        \cup (IF message.title # "" THEN {"title"} ELSE {})
        \cup (IF message.url # "" THEN {"url"} ELSE {})
        \cup (IF message.urlTitle # "" THEN {"url_title"} ELSE {})
        \cup (IF message.sound # "" THEN {"sound"} ELSE {})
        \cup (IF message.device # "" THEN {"device"} ELSE {})
        \cup (IF message.priority = 2 THEN {"retry", "expire"} ELSE {})
        \cup (IF message.timestamp # 0 THEN {"timestamp"} ELSE {})

\* The one value each key must hold.
C14_Value(key) ==
    CASE key = "token" -> pushContext.appToken
      [] key = "user" -> pushContext.userKey
      [] key = "priority" -> Decimal(message.priority)
      [] key = "message" -> message.message
      [] key = "title" -> message.title
      [] key = "url" -> message.url
      [] key = "url_title" -> message.urlTitle
      [] key = "sound" -> message.sound
      [] key = "device" -> message.device
      [] key = "retry" -> Decimal(message.retry)
      [] key = "expire" -> Decimal(message.expire)
      [] key = "timestamp" -> Decimal(message.timestamp)

\* C14: the parameters handed to the transport for a message that passed
\* validation hold token, user and priority, each text field exactly when it
\* is non-empty and then as it is, retry and expire exactly when the priority
\* is Emergency, timestamp exactly when it is non-zero, no other key, and
\* each key once.
C14_Parameters ==
    ((pc = "pushing" \/ PushReturned) /\ Len(net) = 1) =>
        LET values == net[1].values
        IN  /\ DOMAIN values = C14_Keys
            /\ \A key \in DOMAIN values : values[key] = <<C14_Value(key)>>

\* An Emergency message went out with retry and expire and without title,
\* timestamp, sound or device.
C14_Witness ==
    /\ pc = "pushing"
    /\ Len(net) = 1
    /\ message.priority = 2
    /\ message.title = ""
    /\ DOMAIN net[1].values =
           {"token", "user", "message", "priority", "retry", "expire"}
    /\ net[1].values["priority"] = <<"2">>
    /\ net[1].values["retry"] = <<"30">>
    /\ net[1].values["expire"] = <<"86400">>

\* A step of Push, of either goroutine.
C13_PushStep ==
    /\ pc \in {"built", "pushing"}
    /\ peer' # peer \/ ret'.op \in {"Push", "none"}

\* The first caller calls Push again on the message its last Push returned
\* for, whatever the second goroutine did in between.
C13_PushAgain ==
    /\ pc = "built"
    /\ ret.op = "Push"
    /\ peer' = peer
    /\ ret'.op \in {"Push", "none"}
    /\ ret' # ret \/ pc' # pc

C13_PeerPushAgain ==
    /\ peer.pc = "idle"
    /\ peer.ret.op = "Push"
    /\ peer' # peer

C13_Step ==
    /\ C13_PushStep =>
           /\ message' = message
           /\ pushContext' = pushContext
           /\ peer'.message = peer.message
    /\ C13_PushAgain =>
           IF ret.err.type = "ValueError"
           THEN pc' = "built" /\ ret'.err = ret.err
           ELSE pc' = "pushing"
    /\ C13_PeerPushAgain =>
           IF peer.ret.err.type = "ValueError"
           THEN peer'.pc = "idle" /\ peer'.ret.err = peer.ret.err
           ELSE peer'.pc = "pushing"

\* Two pushes of equal messages, one by each goroutine, got the same verdict
\* of validation.
C13_SameVerdict ==
    (ret.op = "Push" /\ peer.ret.op = "Push" /\ peer.message = message
        /\ ~ret.panicked /\ ~peer.ret.panicked) =>
        /\ ret.err.type = "ValueError" <=> peer.ret.err.type = "ValueError"
        /\ ret.err.type = "ValueError" => ret.err = peer.ret.err

\* C13: no step of Push, failing or succeeding, changes a field of a message
\* or of the context; so a second Push of the same unmodified message meets
\* the same verdict of validation as the first, also with the Push calls of
\* another goroutine on the same context between or during the two.
C13_PushIsReadOnly == [](C13_SameVerdict) /\ [][C13_Step]_vars

\* Both goroutines pushed the same message naming a supported device, each
\* got through validation, and the first caller's second Push is in flight
\* while the other's response of status 1 with devices has come back.
C13_Witness ==
    /\ pc = "pushing"
    /\ peer.ret.op = "Push"
    /\ peer.ret.err = NilError
    /\ peer.ret.response.Devices # <<>>
    /\ peer.message = message
    /\ message.device # ""

=============================================================================
